---- MODULE Spec2Model ----
(***************************************************************************)
(* diffkemp-htmlgen: the context-diff parser (Diff.__init__), the          *)
(* two-column renderer (HTMLGenerator._diff_to_html) and the site          *)
(* generator (HTMLGenerator.generate) of src/diffkemp_htmlgen/htmlgen.py.  *)
(*                                                                         *)
(* Text is modelled by TLA+ strings; Len, SubSeq and \o act on them as on  *)
(* sequences of characters.  One parser action is one iteration of the     *)
(* "for line in lines" loop, one renderer action is one iteration of the   *)
(* "while" loop of a fragment.                                             *)
(***************************************************************************)
EXTENDS Integers, Sequences, FiniteSets, TLC

VARIABLES
    input,              \* the argument of Diff(input)
    lines,              \* input.split("\n")
    pos,                \* 1-based position of the for loop in lines
    current_fragment,   \* 0 for None, else the index of the fragment in fragments
    state,              \* "None", "left_line" or "right_line"
    offset,             \* -1 while the local is unbound
    fragments,          \* Diff.fragments
    error,              \* the message of the ValueError raised, "" if none
    pc,                 \* "init", "parse", "raised", "render", "loop", "done";
                        \* in generate(): "collect", "pages", "externals",
                        \* "kabi", "index", "pygments", "htmlgen", "generated",
                        \* "raised"
    frag,               \* position of "for fragment in diff.fragments"
    index_left,
    index_right,
    out,                \* per rendered fragment: its heading and its rows
    listing,            \* the records of the input directory, in os.listdir order
    differences,        \* dict of generate(): sequence of key/value pairs
    external_symbols,   \* dict of generate(): sequence of key/value pairs
    files,              \* the files written to the output directory, by path
    gi,                 \* position of the running for loop of generate()
    gj,                 \* position of the inner loop over affected_symbols
    graphical_diff      \* HTMLGenerator.graphical_diff

generate_vars ==
    <<listing, differences, external_symbols, files, gi, gj, graphical_diff>>

vars == <<input, lines, pos, current_fragment, state, offset, fragments,
          error, pc, frag, index_left, index_right, out, generate_vars>>

parser_vars == <<lines, pos, current_fragment, state, offset, fragments, error>>

render_vars == <<frag, index_left, index_right, out>>

----------------------------------------------------------------------------
(* Bounds of the model.                                                    *)

\* longest generated input, in lines
MaxLines == 5

\* longest line list of a generated fragment
MaxSide == 2

\* longest line list of a fragment of a generated three-fragment diff
MaxSeqSide == 1

----------------------------------------------------------------------------
(* Python's str operations, on TLA+ strings.                               *)

CharAt(s, i) == SubSeq(s, i, i)

Whitespace == {" ", "\t", "\n", "\r", "\f"}

\* 1-based index of the first occurrence of character c in s, 0 if none
find(s, c) ==
    LET I == {i \in 1..Len(s) : CharAt(s, i) = c}
    IN  IF I = {} THEN 0 ELSE CHOOSE i \in I : \A j \in I : i <= j

\* s[start:] for start >= 0
SliceFrom(s, start) == SubSeq(s, start + 1, Len(s))

\* s[start:-back] for start >= 0 and back > 0
SliceBetween(s, start, back) ==
    LET stop == IF Len(s) - back < 0 THEN 0 ELSE Len(s) - back
    IN  IF stop <= start THEN "" ELSE SubSeq(s, start + 1, stop)

startswith(s, prefix) ==
    Len(s) >= Len(prefix) /\ SubSeq(s, 1, Len(prefix)) = prefix

RECURSIVE lstrip(_)
lstrip(s) ==
    IF s # "" /\ CharAt(s, 1) \in Whitespace THEN lstrip(SliceFrom(s, 1)) ELSE s

RECURSIVE rstrip(_)
rstrip(s) ==
    IF s # "" /\ CharAt(s, Len(s)) \in Whitespace
    THEN rstrip(SubSeq(s, 1, Len(s) - 1))
    ELSE s

strip(s) == rstrip(lstrip(s))

\* s.split(sep), sep a single character
RECURSIVE split(_, _)
split(s, sep) ==
    LET i == find(s, sep)
    IN  IF i = 0 THEN <<s>>
        ELSE <<SubSeq(s, 1, i - 1)>> \o split(SliceFrom(s, i), sep)

IsDigit(c) == \E d \in 0..9 : CharAt("0123456789", d + 1) = c

DigitValue(c) == CHOOSE d \in 0..9 : CharAt("0123456789", d + 1) = c

\* the digits of int()'s argument once whitespace and the sign are removed
IntBody(s) ==
    LET t == rstrip(lstrip(s))
    IN  IF t # "" /\ CharAt(t, 1) \in {"+", "-"} THEN SliceFrom(t, 1) ELSE t

\* int(s) returns (else it raises ValueError); digit-group underscores left out
IsIntLiteral(s) ==
    LET b == IntBody(s)
    IN  b # "" /\ \A i \in 1..Len(b) : IsDigit(CharAt(b, i))

RECURSIVE DigitsValue(_, _)
DigitsValue(b, acc) ==
    IF b = "" THEN acc
    ELSE DigitsValue(SliceFrom(b, 1), 10 * acc + DigitValue(CharAt(b, 1)))

int(s) ==
    LET t == rstrip(lstrip(s))
        v == DigitsValue(IntBody(s), 0)
    IN  IF CharAt(t, 1) = "-" THEN 0 - v ELSE v


----------------------------------------------------------------------------
(* Inputs.                                                                 *)

\* the diff_str of tests/diff_test.py
SampleDiff ==
    "    *************** try_to_wake_up(struct task_struct *p, unsigned int state, int wake_flags)\n" \o
    "    *** 1665,1666 ***\n" \o
    "    --- 1725,1748 ---\n" \o
    "      \n" \o
    "    +   /*\n" \o
    "    +    * Ensure we load p->on_rq _after_ p->state, otherwise it would\n" \o
    "    +    * be possible to, falsely, observe p->on_rq == 0 and get stuck\n" \o
    "    +    * in smp_cond_load_acquire() below.\n" \o
    "    +    *\n" \o
    "    +    * sched_ttwu_pending()                 try_to_wake_up()\n" \o
    "    +    *   [S] p->on_rq = 1;                  [L] P->state\n" \o
    "    +    *       UNLOCK rq->lock  -----.\n" \o
    "    +    *                              \\\n" \o
    "    +    *                               +---   RMB\n" \o
    "    +    * schedule()                   /\n" \o
    "    +    *       LOCK rq->lock    -----'\n" \o
    "    +    *       UNLOCK rq->lock\n" \o
    "    +    *\n" \o
    "    +    * [task p]\n" \o
    "    +    *   [S] p->state = UNINTERRUPTIBLE     [L] p->on_rq\n" \o
    "    +    *\n" \o
    "    +    * Pairs with the UNLOCK+LOCK on rq->lock from the\n" \o
    "    +    * last wakeup of our task and the schedule that got our task\n" \o
    "    +    * current.\n" \o
    "    +    */\n" \o
    "    +   smp_rmb();\n" \o
    "        if (p->on_rq && ttwu_remote(p, wake_flags))\n" \o
    "    *************** try_to_wake_up(struct task_struct *p, unsigned int state, int wake_flags)\n" \o
    "    *** 1670,1671 ***\n" \o
    "    --- 1752,1772 ---\n" \o
    "        /*\n" \o
    "    +    * Ensure we load p->on_cpu _after_ p->on_rq, otherwise it would be\n" \o
    "    +    * possible to, falsely, observe p->on_cpu == 0.\n" \o
    "    +    *\n" \o
    "    +    * One must be running (->on_cpu == 1) in order to remove oneself\n" \o
    "    +    * from the runqueue.\n" \o
    "    +    *\n" \o
    "    +    *  [S] ->on_cpu = 1;   [L] ->on_rq\n" \o
    "    +    *      UNLOCK rq->lock\n" \o
    "    +    *                      RMB\n" \o
    "    +    *      LOCK   rq->lock\n" \o
    "    +    *  [S] ->on_rq = 0;    [L] ->on_cpu\n" \o
    "    +    *\n" \o
    "    +    * Pairs with the full barrier implied in the UNLOCK+LOCK on rq->lock\n" \o
    "    +    * from the consecutive calls to schedule(); the first switching to our\n" \o
    "    +    * task, the second putting it to sleep.\n" \o
    "    +    */\n" \o
    "    +   smp_rmb();\n" \o
    "    + \n" \o
    "    +   /*\n" \o
    "         * If the owning (remote) cpu is still in the middle of schedule() with"

\* the lines generated inputs are made of: two fragment headers, the two
\* side headers, a marked line, an empty line, a side header without numbers
LineSet ==
    { "*************** f",
      "  *************** g",
      " *** 5,6 ***",
      " --- 8 ---",
      " !a",
      "",
      "---" }

RECURSIVE JoinLines(_)
JoinLines(ls) ==
    IF Len(ls) = 1 THEN ls[1] ELSE ls[1] \o "\n" \o JoinLines(Tail(ls))

Texts == {JoinLines(ls) : ls \in UNION {[1..k -> LineSet] : k \in 1..MaxLines}}

----------------------------------------------------------------------------
(* Diff.__init__                                                           *)

SEPARATOR == "*************** "

Fragment(function_name) ==
    [ function_name    |-> function_name,
      start_line_left  |-> -1,
      start_line_right |-> -1,
      lines_left       |-> <<>>,
      lines_right      |-> <<>> ]

line == lines[pos]

sline == lstrip(line)

AtLine == pc = "parse" /\ pos <= Len(lines)

IsSeparator(l) == startswith(lstrip(l), SEPARATOR)

IsLeftHeader(l) == ~IsSeparator(l) /\ startswith(lstrip(l), "***")

IsRightHeader(l) ==
    ~IsSeparator(l) /\ ~IsLeftHeader(l) /\ startswith(lstrip(l), "---")

IsContent(l) == ~IsSeparator(l) /\ ~IsLeftHeader(l) /\ ~IsRightHeader(l)

\* the text between the prefix and the suffix of a side header, up to the
\* first comma
HeaderField(l) ==
    split(SliceBetween(lstrip(l), Len("*** "), Len(" ***")), ",")[1]

Raise(msg) ==
    /\ error' = msg
    /\ pc' = "raised"
    /\ UNCHANGED <<generate_vars, input, lines, pos, current_fragment, state, offset,
                   fragments, render_vars>>

DiffInit ==
    /\ pc = "init"
    /\ lines' = split(input, "\n")
    /\ pos' = 1
    /\ current_fragment' = 0
    /\ state' = "None"
    /\ fragments' = <<>>
    /\ pc' = "parse"
    /\ UNCHANGED <<generate_vars, input, offset, error, render_vars>>

\* NewFragment with the fragment inserted at the front of the list
NewFragment_Prepend ==
    /\ AtLine
    /\ IsSeparator(line)
    /\ fragments' = <<Fragment(SliceFrom(sline, Len(SEPARATOR)))>> \o fragments
    /\ current_fragment' = 1
    /\ pos' = pos + 1
    /\ UNCHANGED <<generate_vars, input, lines, state, offset, error, pc, render_vars>>

NewFragment ==
    /\ AtLine
    /\ IsSeparator(line)
    /\ fragments' = Append(fragments, Fragment(SliceFrom(sline, Len(SEPARATOR))))
    /\ current_fragment' = Len(fragments) + 1
    /\ pos' = pos + 1
    /\ UNCHANGED <<generate_vars, input, lines, state, offset, error, pc, render_vars>>

\* RaiseNoFragment with the line skipped instead
RaiseNoFragment_Skip ==
    /\ AtLine
    /\ ~IsSeparator(line)
    /\ current_fragment = 0
    /\ pos' = pos + 1
    /\ UNCHANGED <<generate_vars, input, lines, current_fragment, state, offset, fragments,
                   error, pc, render_vars>>

\* RaiseNoFragment raising for content lines only, a side header is skipped
RaiseNoFragment_HeadersSkipped ==
    /\ AtLine
    /\ ~IsSeparator(line)
    /\ current_fragment = 0
    /\ IF IsContent(line)
       THEN Raise("Invalid diff format")
       ELSE /\ pos' = pos + 1
            /\ UNCHANGED <<generate_vars, input, lines, current_fragment, state,
                           offset, fragments, error, pc, render_vars>>

RaiseNoFragment ==
    /\ AtLine
    /\ ~IsSeparator(line)
    /\ current_fragment = 0
    /\ Raise("Invalid diff format")

\* LeftHeader taking the number after the comma
LeftHeader_LastNumber ==
    /\ AtLine
    /\ current_fragment # 0
    /\ IsLeftHeader(line)
    /\ LET line_nums == SliceBetween(sline, Len("*** "), Len(" ***"))
           parts == split(line_nums, ",")
           last == parts[Len(parts)]
       IN  IF IsIntLiteral(last)
           THEN /\ fragments' = [fragments EXCEPT
                                   ![current_fragment].start_line_left = int(last)]
                /\ state' = "left_line"
                /\ offset' = Len(line) - Len(sline)
                /\ pos' = pos + 1
                /\ UNCHANGED <<generate_vars, input, lines, current_fragment, error, pc,
                               render_vars>>
           ELSE Raise("invalid literal for int()")

LeftHeader ==
    /\ AtLine
    /\ current_fragment # 0
    /\ IsLeftHeader(line)
    /\ LET line_nums == SliceBetween(sline, Len("*** "), Len(" ***"))
           first == split(line_nums, ",")[1]
       IN  IF IsIntLiteral(first)
           THEN /\ fragments' = [fragments EXCEPT
                                   ![current_fragment].start_line_left = int(first)]
                /\ state' = "left_line"
                /\ offset' = Len(line) - Len(sline)
                /\ pos' = pos + 1
                /\ UNCHANGED <<generate_vars, input, lines, current_fragment, error, pc,
                               render_vars>>
           ELSE Raise("invalid literal for int()")

\* RightHeader starting the right side afresh: the lines collected are dropped
RightHeader_ClearsLines ==
    /\ AtLine
    /\ current_fragment # 0
    /\ IsRightHeader(line)
    /\ LET line_nums == SliceBetween(sline, Len("--- "), Len(" ---"))
           first == split(line_nums, ",")[1]
       IN  IF IsIntLiteral(first)
           THEN /\ fragments' = [fragments EXCEPT
                                   ![current_fragment].start_line_right = int(first),
                                   ![current_fragment].lines_right = <<>>]
                /\ state' = "right_line"
                /\ offset' = Len(line) - Len(sline)
                /\ pos' = pos + 1
                /\ UNCHANGED <<generate_vars, input, lines, current_fragment, error, pc,
                               render_vars>>
           ELSE Raise("invalid literal for int()")

RightHeader ==
    /\ AtLine
    /\ current_fragment # 0
    /\ IsRightHeader(line)
    /\ LET line_nums == SliceBetween(sline, Len("--- "), Len(" ---"))
           first == split(line_nums, ",")[1]
       IN  IF IsIntLiteral(first)
           THEN /\ fragments' = [fragments EXCEPT
                                   ![current_fragment].start_line_right = int(first)]
                /\ state' = "right_line"
                /\ offset' = Len(line) - Len(sline)
                /\ pos' = pos + 1
                /\ UNCHANGED <<generate_vars, input, lines, current_fragment, error, pc,
                               render_vars>>
           ELSE Raise("invalid literal for int()")

RaiseNoState ==
    /\ AtLine
    /\ current_fragment # 0
    /\ IsContent(line)
    /\ state = "None"
    /\ Raise("Invalid diff format")

\* AppendLeft appending to the first fragment of the diff
AppendLeft_FirstFragment ==
    /\ AtLine
    /\ current_fragment # 0
    /\ IsContent(line)
    /\ state = "left_line"
    /\ fragments' = [fragments EXCEPT ![1].lines_left =
                                         Append(@, SliceFrom(line, offset))]
    /\ pos' = pos + 1
    /\ UNCHANGED <<generate_vars, input, lines, current_fragment, state, offset, error, pc,
                   render_vars>>

AppendLeft ==
    /\ AtLine
    /\ current_fragment # 0
    /\ IsContent(line)
    /\ state = "left_line"
    /\ fragments' = [fragments EXCEPT ![current_fragment].lines_left =
                                         Append(@, SliceFrom(line, offset))]
    /\ pos' = pos + 1
    /\ UNCHANGED <<generate_vars, input, lines, current_fragment, state, offset, error, pc,
                   render_vars>>

\* AppendRight with the whole line kept, the offset ignored
AppendRight_NoOffset ==
    /\ AtLine
    /\ current_fragment # 0
    /\ IsContent(line)
    /\ state = "right_line"
    /\ fragments' = [fragments EXCEPT ![current_fragment].lines_right =
                                         Append(@, line)]
    /\ pos' = pos + 1
    /\ UNCHANGED <<generate_vars, input, lines, current_fragment, state, offset, error, pc,
                   render_vars>>

AppendRight ==
    /\ AtLine
    /\ current_fragment # 0
    /\ IsContent(line)
    /\ state = "right_line"
    /\ fragments' = [fragments EXCEPT ![current_fragment].lines_right =
                                         Append(@, SliceFrom(line, offset))]
    /\ pos' = pos + 1
    /\ UNCHANGED <<generate_vars, input, lines, current_fragment, state, offset, error, pc,
                   render_vars>>

\* the for loop is over: Diff(diff_str) returns and the table is rendered
ParseEnd ==
    /\ pc = "parse"
    /\ pos > Len(lines)
    /\ pc' = "render"
    /\ UNCHANGED <<generate_vars, input, parser_vars, render_vars>>

----------------------------------------------------------------------------
(* HTMLGenerator._diff_to_html with graphical_diff set: the table.         *)
(* A row of out records what one iteration of the while loop emits: its    *)
(* two td cells and whether they are enclosed in a tr.  The fields rule,   *)
(* li and ri are history: the branch that emitted the row and the values   *)
(* of index_left and index_right when it did.                              *)

fragment == fragments[frag]

LoopCond ==
    \/ index_left < Len(fragment.lines_left)
    \/ index_right < Len(fragment.lines_right)

line_idx_left == fragment.start_line_left + index_left

line_idx_right == fragment.start_line_right + index_right

line_left ==
    IF index_left < Len(fragment.lines_left)
    THEN fragment.lines_left[index_left + 1]
    ELSE ""

line_right ==
    IF index_right < Len(fragment.lines_right)
    THEN fragment.lines_right[index_right + 1]
    ELSE ""

\* a td: its class, the number given to format(), the separator and the text
Cell(klass, num, sep, text) ==
    [klass |-> klass, shown |-> TRUE, num |-> num, sep |-> sep, text |-> text]

EmptyCell ==
    [klass |-> "line empty", shown |-> FALSE, num |-> 0, sep |-> "", text |-> ""]

Row(rule, tr, left, right) ==
    [ rule |-> rule, li |-> index_left, ri |-> index_right,
      tr |-> tr, left |-> left, right |-> right ]

PairedCond == startswith(line_left, "!") /\ startswith(line_right, "!")

\* DeletionCond testing for - only
DeletionCond_MinusOnly == Len(line_left) > 0 /\ CharAt(line_left, 1) = "-"

DeletionCond == Len(line_left) > 0 /\ CharAt(line_left, 1) \in {"!", "-"}

AdditionCond == Len(line_right) > 0 /\ CharAt(line_right, 1) \in {"!", "+"}

LeftExhaustedCond == index_left >= Len(fragment.lines_left)

RightExhaustedCond == index_right >= Len(fragment.lines_right)

PairedRow ==
    Row("paired", TRUE,
        Cell("line removed", line_idx_left, " - ", SliceFrom(line_left, 1)),
        Cell("line added", line_idx_right, " + ", SliceFrom(line_right, 1)))

DeletionRow ==
    Row("deletion", TRUE,
        Cell("line removed", line_idx_left, " - ", SliceFrom(line_left, 1)),
        EmptyCell)

\* AdditionRow labelled with the left line number
AdditionRow_LeftNumber ==
    Row("addition", TRUE,
        EmptyCell,
        Cell("line added", line_idx_left, " + ", SliceFrom(line_right, 1)))

AdditionRow ==
    Row("addition", TRUE,
        EmptyCell,
        Cell("line added", line_idx_right, " + ", SliceFrom(line_right, 1)))

\* LeftExhaustedRow with the right line number in both cells
LeftExhaustedRow_RightNumber ==
    Row("left_exhausted", FALSE,
        Cell("line", line_idx_right, "  ", line_right),
        Cell("line", line_idx_right, "  ", line_right))

LeftExhaustedRow ==
    Row("left_exhausted", FALSE,
        Cell("line", line_idx_left, "  ", line_right),
        Cell("line", line_idx_right, "  ", line_right))

\* RightExhaustedRow with each cell showing the line of its own side
RightExhaustedRow_OwnText ==
    Row("right_exhausted", FALSE,
        Cell("line", line_idx_left, "  ", line_left),
        Cell("line", line_idx_right, "  ", line_right))

RightExhaustedRow ==
    Row("right_exhausted", FALSE,
        Cell("line", line_idx_left, "  ", line_left),
        Cell("line", line_idx_right, "  ", line_left))

\* ContextRow with the two line numbers exchanged
ContextRow_SwappedNumbers ==
    Row("context", TRUE,
        Cell("line", line_idx_right, "  ", line_left),
        Cell("line", line_idx_left, "  ", line_right))

ContextRow ==
    Row("context", TRUE,
        Cell("line", line_idx_left, "  ", line_left),
        Cell("line", line_idx_right, "  ", line_right))

\* one iteration: the row emitted and the advance of the two cursors
Iteration(row, dl, dr) ==
    /\ out' = [out EXCEPT ![frag].rows = Append(@, row)]
    /\ index_left' = index_left + dl
    /\ index_right' = index_right + dr
    /\ UNCHANGED <<generate_vars, input, parser_vars, pc, frag>>

\* the next fragment of "for fragment in diff.fragments": heading, cursors
\* FragmentStart with the cursors set once, before the for loop
FragmentStart_KeepCursors ==
    /\ pc = "render"
    /\ frag < Len(fragments)
    /\ frag' = frag + 1
    /\ out' = Append(out, [heading |-> fragments[frag + 1].function_name,
                           rows |-> <<>>])
    /\ pc' = "loop"
    /\ UNCHANGED <<generate_vars, input, parser_vars, index_left, index_right>>

FragmentStart ==
    /\ pc = "render"
    /\ frag < Len(fragments)
    /\ frag' = frag + 1
    /\ out' = Append(out, [heading |-> fragments[frag + 1].function_name,
                           rows |-> <<>>])
    /\ index_left' = 0
    /\ index_right' = 0
    /\ pc' = "loop"
    /\ UNCHANGED <<generate_vars, input, parser_vars>>

\* Paired advancing the left cursor only
Paired_AdvanceLeftOnly ==
    /\ pc = "loop" /\ LoopCond
    /\ PairedCond
    /\ Iteration(PairedRow, 1, 0)

Paired ==
    /\ pc = "loop" /\ LoopCond
    /\ PairedCond
    /\ Iteration(PairedRow, 1, 1)

\* Deletion tested before the paired change
Deletion_BeforePaired ==
    /\ pc = "loop" /\ LoopCond
    /\ DeletionCond
    /\ Iteration(DeletionRow, 1, 0)

\* Deletion advancing both cursors
Deletion_AdvanceBoth ==
    /\ pc = "loop" /\ LoopCond
    /\ ~PairedCond
    /\ DeletionCond
    /\ Iteration(DeletionRow, 1, 1)

Deletion ==
    /\ pc = "loop" /\ LoopCond
    /\ ~PairedCond
    /\ DeletionCond
    /\ Iteration(DeletionRow, 1, 0)

\* Addition tested before the deletion
Addition_BeforeDeletion ==
    /\ pc = "loop" /\ LoopCond
    /\ ~PairedCond
    /\ AdditionCond
    /\ Iteration(AdditionRow, 0, 1)

Addition ==
    /\ pc = "loop" /\ LoopCond
    /\ ~PairedCond /\ ~DeletionCond
    /\ AdditionCond
    /\ Iteration(AdditionRow, 0, 1)

\* LeftExhausted advancing the exhausted cursor only
LeftExhausted_AdvanceLeftOnly ==
    /\ pc = "loop" /\ LoopCond
    /\ ~PairedCond /\ ~DeletionCond /\ ~AdditionCond
    /\ LeftExhaustedCond
    /\ Iteration(LeftExhaustedRow, 1, 0)

LeftExhausted ==
    /\ pc = "loop" /\ LoopCond
    /\ ~PairedCond /\ ~DeletionCond /\ ~AdditionCond
    /\ LeftExhaustedCond
    /\ Iteration(LeftExhaustedRow, 1, 1)

RightExhausted ==
    /\ pc = "loop" /\ LoopCond
    /\ ~PairedCond /\ ~DeletionCond /\ ~AdditionCond
    /\ ~LeftExhaustedCond
    /\ RightExhaustedCond
    /\ Iteration(RightExhaustedRow, 1, 1)

\* Context advancing the left cursor only
Context_AdvanceLeftOnly ==
    /\ pc = "loop" /\ LoopCond
    /\ ~PairedCond /\ ~DeletionCond /\ ~AdditionCond
    /\ ~LeftExhaustedCond /\ ~RightExhaustedCond
    /\ Iteration(ContextRow, 1, 0)

Context ==
    /\ pc = "loop" /\ LoopCond
    /\ ~PairedCond /\ ~DeletionCond /\ ~AdditionCond
    /\ ~LeftExhaustedCond /\ ~RightExhaustedCond
    /\ Iteration(ContextRow, 1, 1)

\* the while condition is false: on to the next fragment
FragmentEnd ==
    /\ pc = "loop"
    /\ ~LoopCond
    /\ pc' = "render"
    /\ UNCHANGED <<generate_vars, input, parser_vars, render_vars>>

\* no fragment is left: _diff_to_html returns
RenderEnd ==
    /\ pc = "render"
    /\ frag = Len(fragments)
    /\ pc' = "done"
    /\ UNCHANGED <<generate_vars, input, parser_vars, render_vars>>

----------------------------------------------------------------------------
(* Spec: Diff(input) and the rendering of its result, for the generated    *)
(* texts and the test suite's sample.                                      *)

Init ==
    /\ input \in Texts \cup {SampleDiff}
    /\ lines = <<>>
    /\ pos = 0
    /\ current_fragment = 0
    /\ state = "None"
    /\ offset = -1
    /\ fragments = <<>>
    /\ error = ""
    /\ pc = "init"
    /\ frag = 0
    /\ index_left = 0
    /\ index_right = 0
    /\ out = <<>>
    /\ listing = <<>>
    /\ differences = <<>>
    /\ external_symbols = <<>>
    /\ files = <<>>
    /\ gi = 0
    /\ gj = 0
    /\ graphical_diff = TRUE

Next ==
    \/ DiffInit
    \/ NewFragment
    \/ RaiseNoFragment
    \/ LeftHeader
    \/ RightHeader
    \/ RaiseNoState
    \/ AppendLeft
    \/ AppendRight
    \/ ParseEnd
    \/ FragmentStart
    \/ Paired
    \/ Deletion
    \/ Addition
    \/ LeftExhausted
    \/ RightExhausted
    \/ Context
    \/ FragmentEnd
    \/ RenderEnd

Spec == Init /\ [][Next]_vars

----------------------------------------------------------------------------
(* SpecR: the rendering of a parsed diff, the fragments drawn from bounded *)
(* sets: every diff of one fragment with up to MaxSide lines a side, and   *)
(* the three-fragment diffs f, g, f with up to MaxSeqSide lines a side.    *)

LeftLines == {"!a", "-a", "+a", " a", ""}

RightLines == {"!b", "+b", "-b", " b", ""}

SeqLeftLines == {"!a", "-a", " a"}

SeqRightLines == {"!b", "+b", " b"}

SeqsUpTo(S, n) == UNION {[1..k -> S] : k \in 0..n}

\* start lines of the one-fragment diffs: -1 is the value a fragment keeps
\* when its side header was missing (the diffs f, g, f start at 10 and 20)
StartLines == {<<-1, -1>>, <<-1, 20>>, <<10, -1>>}

Frags ==
    { [ function_name    |-> "f",
        start_line_left  |-> st[1],
        start_line_right |-> st[2],
        lines_left       |-> ll,
        lines_right      |-> lr ] :
      st \in StartLines,
      ll \in SeqsUpTo(LeftLines, MaxSide), lr \in SeqsUpTo(RightLines, MaxSide) }

SeqFrags ==
    { [ function_name    |-> "f",
        start_line_left  |-> 10,
        start_line_right |-> 20,
        lines_left       |-> ll,
        lines_right      |-> lr ] :
      ll \in SeqsUpTo(SeqLeftLines, MaxSeqSide),
      lr \in SeqsUpTo(SeqRightLines, MaxSeqSide) }

InitR ==
    /\ fragments \in {<<f>> : f \in Frags}
                     \cup {<<f, g, f>> : f \in SeqFrags, g \in SeqFrags}
    /\ input = ""
    /\ lines = <<>>
    /\ pos = 0
    /\ current_fragment = 0
    /\ state = "None"
    /\ offset = -1
    /\ error = ""
    /\ pc = "render"
    /\ frag = 0
    /\ index_left = 0
    /\ index_right = 0
    /\ out = <<>>
    /\ listing = <<>>
    /\ differences = <<>>
    /\ external_symbols = <<>>
    /\ files = <<>>
    /\ gi = 0
    /\ gj = 0
    /\ graphical_diff = TRUE

NextR ==
    \/ FragmentStart
    \/ Paired
    \/ Deletion
    \/ Addition
    \/ LeftExhausted
    \/ RightExhausted
    \/ Context
    \/ FragmentEnd
    \/ RenderEnd

SpecR == InitR /\ [][NextR]_vars

----------------------------------------------------------------------------
(* The site generator, HTMLGenerator.generate.  A dict is a sequence of    *)
(* key/value pairs in insertion order; a page is the file it is written    *)
(* to, the symbol it presents and the hrefs of its anchors.  One action is *)
(* one iteration of a for loop of generate() or one file written.          *)

\* most records in the input directory
MaxFiles == 2

\* most affections over all records of the input directory
MaxAffections == 3

FUNCTION == 0

GLOBAL_VAR == 1

KindStr(kind) ==
    CASE kind = 0 -> "function"
      [] kind = 1 -> "global variable"
      [] kind = 2 -> "module parameter"
      [] kind = 3 -> "sysctl option"

InternalSymbol(name, location) == [name |-> name, location |-> location]

ExternalSymbol(name, kind) == [name |-> name, kind |-> kind]

\* ExternalSymbol.__eq__ with name ignoring the kind
SymbolEq_NameOnly(a, b) == a.name = b.name

SymbolEq(a, b) == a.name = b.name /\ a.kind = b.kind

Call(symbol_name, location) ==
    [symbol_name |-> symbol_name, location |-> location]

Affection(symbol, callstack_old, callstack_new) ==
    [symbol |-> symbol, callstack_old |-> callstack_old,
     callstack_new |-> callstack_new]

Difference(symbol_old, diff, affected_symbols) ==
    [symbol_old |-> symbol_old, diff |-> diff,
     affected_symbols |-> affected_symbols]

\* d[key] = value of a dict with string keys
DictSet(d, key, value) ==
    IF \E i \in 1..Len(d) : d[i].key = key
    THEN [i \in 1..Len(d) |->
             IF d[i].key = key THEN [key |-> d[i].key, value |-> value]
             ELSE d[i]]
    ELSE Append(d, [key |-> key, value |-> value])

\* "external_symbol not in d" negated: hashing and __eq__ of ExternalSymbol
Contains(d, symbol) == \E i \in 1..Len(d) : SymbolEq(d[i].key, symbol)

\* d[symbol].append(affection), after d[symbol] = [] if symbol is not in d
DictAppend(d, symbol, affection) ==
    IF Contains(d, symbol)
    THEN LET k == CHOOSE i \in 1..Len(d) : SymbolEq(d[i].key, symbol)
         IN  [d EXCEPT ![k].value = Append(@, affection)]
    ELSE Append(d, [key |-> symbol, value |-> <<affection>>])

\* open(path, "w") and write
Write(fs, path, page) ==
    [p \in (DOMAIN fs) \cup {path} |-> IF p = path THEN page ELSE fs[p]]

Page(kind, subject, links) ==
    [kind |-> kind, subject |-> subject, links |-> links]

KabiHref(symbol) == "kabi/" \o symbol.name \o "-" \o KindStr(symbol.kind) \o ".html"

DifferenceHref(symbol) == symbol.name \o ".html"

DifferencePage(difference) ==
    Page("difference", difference.symbol_old,
         {"index.html"}
         \cup {KabiHref(difference.affected_symbols[a].symbol) :
                  a \in 1..Len(difference.affected_symbols)})

KabiPage(symbol, affections) ==
    Page("kabi", symbol,
         {"../index.html"}
         \cup {"../" \o DifferenceHref(affections[a].symbol) :
                  a \in 1..Len(affections)})

IndexPage ==
    Page("index", [name |-> "DiffKemp results"],
         {DifferenceHref(differences[i].value.symbol_old) :
             i \in 1..Len(differences)}
         \cup {KabiHref(external_symbols[i].key) :
                  i \in 1..Len(external_symbols)})

StylePage(name) == Page("style", [name |-> name], {})

difference == differences[gi + 1].value

affection == difference.affected_symbols[gj + 1]

Step(next_pc) ==
    /\ pc' = next_pc
    /\ gi' = 0
    /\ gj' = 0

\* _collect_differences: one iteration of "for filename in os.listdir"
CollectDifference ==
    /\ pc = "collect"
    /\ gi < Len(listing)
    /\ differences' = DictSet(differences, listing[gi + 1].symbol_old.name,
                              listing[gi + 1])
    /\ gi' = gi + 1
    /\ UNCHANGED <<graphical_diff, input, parser_vars, render_vars, pc, listing,
                   external_symbols, files, gj>>

CollectDifferencesEnd ==
    /\ pc = "collect"
    /\ gi = Len(listing)
    /\ Step("pages")
    /\ UNCHANGED <<graphical_diff, input, parser_vars, render_vars, listing, differences,
                   external_symbols, files>>

RECURSIVE ErrorFrom(_, _, _, _)
\* the for loop of Diff.__init__ from line k of ls on, with a fragment open
\* or not and a side selected or not: the message of the ValueError it
\* raises, "" if it runs to the end
ErrorFrom(ls, k, open, side) ==
    IF k > Len(ls) THEN ""
    ELSE IF IsSeparator(ls[k]) THEN ErrorFrom(ls, k + 1, TRUE, side)
    ELSE IF ~open THEN "Invalid diff format"
    ELSE IF ~IsContent(ls[k])
         THEN IF IsIntLiteral(HeaderField(ls[k]))
              THEN ErrorFrom(ls, k + 1, TRUE, TRUE)
              ELSE "invalid literal for int()"
    ELSE IF ~side THEN "Invalid diff format"
    ELSE ErrorFrom(ls, k + 1, TRUE, TRUE)

\* what Diff(diff_str) raises, "" if it returns
DiffError(diff_str) == ErrorFrom(split(diff_str, "\n"), 1, FALSE, FALSE)

\* what _diff_to_html(difference.diff.strip()) raises, "" if it returns
PageError(d) ==
    IF graphical_diff THEN DiffError(strip(d.diff)) ELSE ""

\* WriteDifferencePage writing the page whatever the parser does
WriteDifferencePage_ErrorIgnored ==
    /\ pc = "pages"
    /\ gi < Len(differences)
    /\ files' = Write(files, difference.symbol_old.name \o ".html",
                      DifferencePage(difference))
    /\ gi' = gi + 1
    /\ UNCHANGED <<graphical_diff, input, parser_vars, render_vars, pc, listing,
                   differences, external_symbols, gj>>

\* one iteration of "for difference in differences.values()"
WriteDifferencePage ==
    /\ pc = "pages"
    /\ gi < Len(differences)
    /\ PageError(difference) = ""
    /\ files' = Write(files, difference.symbol_old.name \o ".html",
                      DifferencePage(difference))
    /\ gi' = gi + 1
    /\ UNCHANGED <<graphical_diff, input, parser_vars, render_vars, pc, listing, differences,
                   external_symbols, gj>>

\* the iteration in which Diff() raises: the error leaves generate()
RaiseInDifferencePage ==
    /\ pc = "pages"
    /\ gi < Len(differences)
    /\ PageError(difference) # ""
    /\ error' = PageError(difference)
    /\ pc' = "raised"
    /\ UNCHANGED <<graphical_diff, input, lines, pos, current_fragment, state,
                   offset, fragments, render_vars, listing, differences,
                   external_symbols, files, gi, gj>>

DifferencePagesEnd ==
    /\ pc = "pages"
    /\ gi = Len(differences)
    /\ Step("externals")
    /\ UNCHANGED <<graphical_diff, input, parser_vars, render_vars, listing, differences,
                   external_symbols, files>>

\* _collect_external_symbols: one iteration of the inner for loop
CollectExternalSymbol ==
    /\ pc = "externals"
    /\ gi < Len(differences)
    /\ gj < Len(difference.affected_symbols)
    /\ external_symbols' =
          DictAppend(external_symbols, affection.symbol,
                     Affection(difference.symbol_old, affection.callstack_old,
                               affection.callstack_new))
    /\ gj' = gj + 1
    /\ UNCHANGED <<graphical_diff, input, parser_vars, render_vars, pc, listing, differences,
                   files, gi>>

\* the inner loop ends, the outer loop moves to the next difference
NextDifference ==
    /\ pc = "externals"
    /\ gi < Len(differences)
    /\ gj = Len(difference.affected_symbols)
    /\ gi' = gi + 1
    /\ gj' = 0
    /\ UNCHANGED <<graphical_diff, input, parser_vars, render_vars, pc, listing, differences,
                   external_symbols, files>>

CollectExternalSymbolsEnd ==
    /\ pc = "externals"
    /\ gi = Len(differences)
    /\ Step("kabi")
    /\ UNCHANGED <<graphical_diff, input, parser_vars, render_vars, listing, differences,
                   external_symbols, files>>

\* one iteration of "for symbol, affections in external_symbols.items()"
WriteKabiPage ==
    /\ pc = "kabi"
    /\ gi < Len(external_symbols)
    /\ LET symbol == external_symbols[gi + 1].key
           affections == external_symbols[gi + 1].value
       IN  files' = Write(files, KabiHref(symbol), KabiPage(symbol, affections))
    /\ gi' = gi + 1
    /\ UNCHANGED <<graphical_diff, input, parser_vars, render_vars, pc, listing, differences,
                   external_symbols, gj>>

KabiPagesEnd ==
    /\ pc = "kabi"
    /\ gi = Len(external_symbols)
    /\ Step("index")
    /\ UNCHANGED <<graphical_diff, input, parser_vars, render_vars, listing, differences,
                   external_symbols, files>>

WriteIndex ==
    /\ pc = "index"
    /\ files' = Write(files, "index.html", IndexPage)
    /\ pc' = "pygments"
    /\ UNCHANGED <<graphical_diff, input, parser_vars, render_vars, listing, differences,
                   external_symbols, gi, gj>>

WritePygmentsStyle ==
    /\ pc = "pygments"
    /\ files' = Write(files, "pygments.css", StylePage("pygments.css"))
    /\ pc' = "htmlgen"
    /\ UNCHANGED <<graphical_diff, input, parser_vars, render_vars, listing, differences,
                   external_symbols, gi, gj>>

WriteHtmlgenStyle ==
    /\ pc = "htmlgen"
    /\ files' = Write(files, "htmlgen.css", StylePage("htmlgen.css"))
    /\ pc' = "generated"
    /\ UNCHANGED <<graphical_diff, input, parser_vars, render_vars, listing, differences,
                   external_symbols, gi, gj>>

(* Input directories: up to MaxFiles records with up to MaxAffections      *)
(* affections between them.  Record i is located at line i of its source   *)
(* file, so two records of the same symbol name are different records.     *)

Names == {"f", "g"}

Symbols == {ExternalSymbol("x", FUNCTION), ExternalSymbol("x", GLOBAL_VAR)}

\* pairs of an old and a new call stack
Callstacks ==
    { << <<Call("c", 1)>>, <<Call("c", 2)>> >>,
      << <<Call("d", 3), Call("c", 1)>>, <<>> >> }

\* every symbol with the first pair of call stacks, the function also with
\* the second
Affections ==
    {Affection(s, c[1], c[2]) : s \in Symbols, c \in Callstacks}
        \ {Affection(ExternalSymbol("x", GLOBAL_VAR),
                      <<Call("d", 3), Call("c", 1)>>, <<>>)}

\* sequences of affections, each with the record it belongs to
Owned(n) ==
    { t \in UNION { [1..k -> Affections \X (1..n)] : k \in 0..MaxAffections } :
         \A k \in 1..(Len(t) - 1) : t[k][2] <= t[k + 1][2] }

AffectionsOf(t, i) ==
    LET own == SelectSeq(t, LAMBDA x : x[2] = i)
    IN  [k \in 1..Len(own) |-> own[k][1]]

\* the records of a directory, given their symbol names, their diffs and
\* their affections
Listing(names, diffs, t) ==
    [i \in 1..Len(names) |->
        Difference(InternalSymbol(names[i], i), diffs[i], AffectionsOf(t, i))]

\* the diff texts of the records: one that parses once stripped, one whose
\* first line is a content line, one with a side header without a number
DiffTexts ==
    { "\n*************** f\n --- 8 ---\n +b\n",
      " !a\n",
      "*************** f\n---" }

InitG ==
    /\ \E n \in 0..MaxFiles :
          \E t \in Owned(n) :
              \E names \in [1..n -> Names] :
                  listing = Listing(names, [i \in 1..n |-> " !a\n"], t)
    /\ differences = <<>>
    /\ external_symbols = <<>>
    /\ files = <<>>
    /\ gi = 0
    /\ gj = 0
    /\ graphical_diff = FALSE
    /\ pc = "collect"
    /\ input = ""
    /\ lines = <<>>
    /\ pos = 0
    /\ current_fragment = 0
    /\ state = "None"
    /\ offset = -1
    /\ fragments = <<>>
    /\ error = ""
    /\ frag = 0
    /\ index_left = 0
    /\ index_right = 0
    /\ out = <<>>

NextG ==
    \/ CollectDifference
    \/ CollectDifferencesEnd
    \/ WriteDifferencePage
    \/ DifferencePagesEnd
    \/ CollectExternalSymbol
    \/ NextDifference
    \/ CollectExternalSymbolsEnd
    \/ WriteKabiPage
    \/ KabiPagesEnd
    \/ WriteIndex
    \/ WritePygmentsStyle
    \/ WriteHtmlgenStyle

SpecG == InitG /\ [][NextG]_vars

(* generate() with or without graphical diffs, on records whose diffs are  *)
(* drawn from DiffTexts.                                                   *)

\* most affections over all records when the diffs vary
MaxDiffAffections == 1

InitD ==
    /\ graphical_diff \in BOOLEAN
    /\ \E n \in 0..MaxFiles :
          \E t \in {x \in Owned(n) : Len(x) <= MaxDiffAffections} :
              \E names \in [1..n -> Names] :
                  \E diffs \in [1..n -> DiffTexts] :
                      listing = Listing(names, diffs, t)
    /\ differences = <<>>
    /\ external_symbols = <<>>
    /\ files = <<>>
    /\ gi = 0
    /\ gj = 0
    /\ pc = "collect"
    /\ input = ""
    /\ lines = <<>>
    /\ pos = 0
    /\ current_fragment = 0
    /\ state = "None"
    /\ offset = -1
    /\ fragments = <<>>
    /\ error = ""
    /\ frag = 0
    /\ index_left = 0
    /\ index_right = 0
    /\ out = <<>>

NextD ==
    \/ CollectDifference
    \/ CollectDifferencesEnd
    \/ WriteDifferencePage
    \/ RaiseInDifferencePage
    \/ DifferencePagesEnd
    \/ CollectExternalSymbol
    \/ NextDifference
    \/ CollectExternalSymbolsEnd
    \/ WriteKabiPage
    \/ KabiPagesEnd
    \/ WriteIndex
    \/ WritePygmentsStyle
    \/ WriteHtmlgenStyle

SpecD == InitD /\ [][NextD]_vars

----------------------------------------------------------------------------
(* Properties.                                                             *)

\* the lines of the input that open a fragment, in order
SeparatorLines == SelectSeq(split(input, "\n"), IsSeparator)

Returned == pc \in {"render", "loop", "done"}

\* the rendering of fragment i is complete
Rendered(i) == i \in 1..Len(out) /\ (i < frag \/ pc \in {"render", "done"})

Max0(n) == IF n < 0 THEN 0 ELSE n

\* iterations the while loop of the current fragment can still need
Remaining ==
    IF pc = "loop"
    THEN Max0(Len(fragment.lines_left) - index_left)
         + Max0(Len(fragment.lines_right) - index_right)
    ELSE 0

Unmarked(l) == l = "" \/ CharAt(l, 1) \notin {"!", "+", "-"}

AllStartWith(ls, c) == \A i \in 1..Len(ls) : startswith(ls[i], c)

\* C1: when Diff(input) returns, there are as many fragments as lines of the
\* input whose left-trimmed text starts with the separator token, and the
\* i-th fragment carries the label of the i-th such line.
C1_FragmentsMatchSeparators ==
    Returned =>
        /\ Len(fragments) = Len(SeparatorLines)
        /\ \A i \in 1..Len(fragments) :
              fragments[i].function_name =
                  SliceFrom(lstrip(SeparatorLines[i]), Len(SEPARATOR))

C1_Witness ==
    /\ pc = "done"
    /\ Len(fragments) = 2
    /\ fragments[1].function_name = "g"
    /\ fragments[2].function_name = "f"

\* C2: when the first line of the input is a content line, the parser reads
\* no further than that line, raises "Invalid diff format" and returns no
\* Diff (so never one without fragments).
C2_FirstContentLineRaises ==
    (pc # "init" /\ IsContent(split(input, "\n")[1])) =>
        /\ ~Returned
        /\ pos = 1
        /\ fragments = <<>>
        /\ pc = "parse" => ENABLED RaiseNoFragment
        /\ pc = "raised" => error = "Invalid diff format"

C2_Witness ==
    /\ pc = "raised"
    /\ pos = 1
    /\ IsContent(lines[1])
    /\ Len(lines) > 1
    /\ error = "Invalid diff format"

\* line k follows a fragment header with no side header in between
BeforeSideHeader(k) ==
    \E h \in 1..(k - 1) :
        /\ IsSeparator(lines[h])
        /\ \A j \in (h + 1)..(k - 1) : IsContent(lines[j])

\* C3: in every fragment, a content line that comes after the fragment's
\* header and before any side header of that fragment is not consumed: the
\* parser raises there.
C3_ContentBeforeSideHeaderRaises ==
    \A k \in 1..(pos - 1) : ~(IsContent(lines[k]) /\ BeforeSideHeader(k))

\* C4: the while loop of a fragment terminates without raising: every
\* iteration lowers Remaining, a step is possible until the rendering is
\* done, no error is raised; a fragment without lines gets no row.
C4_ReconcileTerminates ==
    /\ [][(pc = "loop" /\ pc' = "loop") => Remaining' < Remaining]_vars
    /\ [](pc # "done" => ENABLED NextR)
    /\ [](pc # "raised" /\ error = "")
    /\ [](\A i \in 1..Len(out) :
            (Rendered(i) /\ fragments[i].lines_left = <<>>
                         /\ fragments[i].lines_right = <<>>)
                => out[i].rows = <<>>)

C4_Witness ==
    /\ pc = "done"
    /\ fragments[1].start_line_left = -1
    /\ Len(fragments[1].lines_left) = 1
    /\ Len(fragments[1].lines_right) = 2
    /\ Len(out[1].rows) = 2
    /\ out[1].rows[2].rule = "left_exhausted"

ExhaustedRows(i) ==
    {r \in 1..Len(out[i].rows) :
        out[i].rows[r].rule \in {"left_exhausted", "right_exhausted"}}

LastRow == out[frag].rows[Len(out[frag].rows)]

\* C6: when one cursor is past the end of its list and the candidate line of
\* the other side is unmarked, the iteration emits one row that shows that
\* line in both columns, and both cursors advance by one.
C6_ExhaustedContextStep ==
    [][(/\ pc = "loop"
        /\ LoopCond
        /\ \/ LeftExhaustedCond /\ Unmarked(line_right)
           \/ RightExhaustedCond /\ Unmarked(line_left))
       => LET shown == IF LeftExhaustedCond THEN line_right ELSE line_left
          IN  /\ out'[frag].rows = Append(out[frag].rows, LastRow')
              /\ LastRow'.left.text = shown
              /\ LastRow'.right.text = shown
              /\ LastRow'.left.klass = "line"
              /\ LastRow'.right.klass = "line"
              /\ index_left' = index_left + 1
              /\ index_right' = index_right + 1]_vars

C6_Witness ==
    /\ pc = "done"
    /\ fragments[1].lines_left = <<" a">>
    /\ fragments[1].lines_right = <<>>
    /\ out[1].rows[1].rule = "right_exhausted"
    /\ out[1].rows[1].left.text = " a"
    /\ out[1].rows[1].right.text = " a"
    /\ index_right = 1

\* C7: a fragment without left lines whose K right lines all start with +
\* gets exactly K rows, each an empty left cell and an added right cell, the
\* j-th (from 0) labelled right_start_line + j.
C7_AllAdditions ==
    \A i \in 1..Len(out) :
        (/\ Rendered(i)
         /\ fragments[i].lines_left = <<>>
         /\ AllStartWith(fragments[i].lines_right, "+"))
        => /\ Len(out[i].rows) = Len(fragments[i].lines_right)
           /\ \A j \in 1..Len(out[i].rows) :
                 LET row == out[i].rows[j]
                 IN  /\ row.tr
                     /\ row.left = EmptyCell
                     /\ row.right.klass = "line added"
                     /\ row.right.shown
                     /\ row.right.num = fragments[i].start_line_right + (j - 1)
                     /\ row.right.text = SliceFrom(fragments[i].lines_right[j], 1)

C7_Witness ==
    /\ pc = "done"
    /\ fragments[1].lines_left = <<>>
    /\ fragments[1].lines_right = <<"+b", "+b">>
    /\ fragments[1].start_line_left = 10
    /\ Len(out[1].rows) = 2

\* C8: a fragment whose two line lists have the same length n and whose
\* lines all start with ! gets exactly n rows, each a removed left cell and
\* an added right cell, the i-th (from 0) labelled left_start_line + i on
\* the left and right_start_line + i on the right.
C8_AllPaired ==
    \A i \in 1..Len(out) :
        (/\ Rendered(i)
         /\ Len(fragments[i].lines_left) = Len(fragments[i].lines_right)
         /\ AllStartWith(fragments[i].lines_left, "!")
         /\ AllStartWith(fragments[i].lines_right, "!"))
        => /\ Len(out[i].rows) = Len(fragments[i].lines_left)
           /\ \A j \in 1..Len(out[i].rows) :
                 LET row == out[i].rows[j]
                 IN  /\ row.tr
                     /\ row.left.klass = "line removed"
                     /\ row.right.klass = "line added"
                     /\ row.left.num = fragments[i].start_line_left + (j - 1)
                     /\ row.right.num = fragments[i].start_line_right + (j - 1)
                     /\ row.left.text = SliceFrom(fragments[i].lines_left[j], 1)
                     /\ row.right.text = SliceFrom(fragments[i].lines_right[j], 1)

C8_Witness ==
    /\ pc = "done"
    /\ fragments[1].lines_left = <<"!a", "!a">>
    /\ fragments[1].lines_right = <<"!b", "!b">>
    /\ Len(out[1].rows) = 2

PureAddition(row, n) ==
    /\ row.tr
    /\ row.left = EmptyCell
    /\ row.right.klass = "line added"
    /\ row.right.num = n

\* the first fragment of the sample is parsed as the test suite asserts
SampleFirstFragment ==
    /\ Len(fragments) = 2
    /\ fragments[1].start_line_left = 1665
    /\ fragments[1].start_line_right = 1725
    /\ fragments[1].lines_left = <<>>
    /\ Len(fragments[1].lines_right) = 24

\* C9 as stated: the first fragment of the sample diff gets 24 rows, all
\* pure additions, with right line numbers 1725 to 1748 and an empty left
\* column in every row.
C9_SampleAllAdditions ==
    (input = SampleDiff /\ pc = "done") =>
        /\ SampleFirstFragment
        /\ Len(out[1].rows) = 24
        /\ \A j \in 1..24 : PureAddition(out[1].rows[j], 1725 + (j - 1))

\* C9 amended: the first fragment of the sample diff gets 24 rows with right
\* line numbers 1725 to 1748; the 22 rows of its + lines (1726 to 1747) are
\* pure additions with an empty left column; its first and last row come
\* from the unmarked first and last right line, shown in both columns by the
\* left-exhausted rule with 1665 and 1666 in the left column.
C9_SampleRows ==
    (input = SampleDiff /\ pc = "done") =>
        /\ SampleFirstFragment
        /\ Len(out[1].rows) = 24
        /\ \A j \in 1..24 : out[1].rows[j].right.num = 1725 + (j - 1)
        /\ \A j \in 2..23 : PureAddition(out[1].rows[j], 1725 + (j - 1))
        /\ \A j \in {1, 24} :
              LET row == out[1].rows[j]
              IN  /\ row.rule = "left_exhausted"
                  /\ row.left.klass = "line"
                  /\ row.right.klass = "line"
                  /\ row.left.text = fragments[1].lines_right[j]
                  /\ row.right.text = fragments[1].lines_right[j]
                  /\ Unmarked(fragments[1].lines_right[j])
                  /\ row.left.num = IF j = 1 THEN 1665 ELSE 1666

C9_Witness ==
    /\ input = SampleDiff
    /\ pc = "done"
    /\ Len(out) = 2
    /\ Len(out[1].rows) = 24

\* C10: the rows of a fragment depend on the fragment alone: two fragments
\* of a diff with the same line lists and start lines get the same rows,
\* whatever was rendered before each of them.
C10_RowsDependOnFragmentOnly ==
    \A i \in 1..Len(out) : \A j \in 1..Len(out) :
        (Rendered(i) /\ Rendered(j) /\ fragments[i] = fragments[j])
            => out[i] = out[j]

C10_Witness ==
    /\ pc = "done"
    /\ Len(fragments) = 3
    /\ fragments[1] = fragments[3]
    /\ fragments[1] # fragments[2]
    /\ Len(out[2].rows) = 2
    /\ Len(out[3].rows) = 2
    /\ out[1] = out[3]

\* positions in lines of the fragment headers, in order
SeparatorAt ==
    SelectSeq([k \in 1..Len(lines) |-> k], LAMBDA k : IsSeparator(lines[k]))

\* positions of the lines that belong to the i-th fragment header
Span(i) ==
    (SeparatorAt[i] + 1) ..
        (IF i < Len(SeparatorAt) THEN SeparatorAt[i + 1] - 1 ELSE Len(lines))

Last(S) == CHOOSE k \in S : \A j \in S : j <= k

\* the first number of a side header line
HeaderNumber(l) ==
    int(split(SliceBetween(lstrip(l), Len("*** "), Len(" ***")), ",")[1])

\* C11 as stated: when Diff(input) returns, no fragment has a start line
\* equal to -1.
C11_NoSentinelAfterParse ==
    Returned =>
        \A i \in 1..Len(fragments) :
            /\ fragments[i].start_line_left # -1
            /\ fragments[i].start_line_right # -1

\* C11 amended: when Diff(input) returns, a start line of a fragment is the
\* first number of the last header of that side among the fragment's lines,
\* and it is still -1 when the fragment has no header of that side.
C11_StartLinesFromHeaders ==
    Returned =>
        \A i \in 1..Len(fragments) :
            LET L == {k \in Span(i) : IsLeftHeader(lines[k])}
                R == {k \in Span(i) : IsRightHeader(lines[k])}
            IN  /\ fragments[i].start_line_left =
                      IF L = {} THEN -1 ELSE HeaderNumber(lines[Last(L)])
                /\ fragments[i].start_line_right =
                      IF R = {} THEN -1 ELSE HeaderNumber(lines[Last(R)])

C11_Witness ==
    /\ pc = "done"
    /\ Len(fragments) = 2
    /\ fragments[1].start_line_left = 5
    /\ fragments[1].start_line_right = -1
    /\ fragments[2].start_line_left = -1
    /\ fragments[2].start_line_right = 8

\* C12: while parsing, lines_left grows only by the content line at hand,
\* only in the last fragment and only while state is "left_line", and
\* likewise lines_right while state is "right_line"; a fragment followed by
\* a later fragment does not change in any field.
C12_AppendFrame ==
    [][pc = "parse" =>
        /\ Len(fragments') >= Len(fragments)
        /\ \A i \in 1..Len(fragments) :
              /\ i < Len(fragments) => fragments'[i] = fragments[i]
              /\ fragments'[i].lines_left # fragments[i].lines_left =>
                    /\ state = "left_line"
                    /\ IsContent(line)
                    /\ fragments'[i].lines_left =
                          Append(fragments[i].lines_left, SliceFrom(line, offset))
                    /\ fragments'[i].lines_right = fragments[i].lines_right
              /\ fragments'[i].lines_right # fragments[i].lines_right =>
                    /\ state = "right_line"
                    /\ IsContent(line)
                    /\ fragments'[i].lines_right =
                          Append(fragments[i].lines_right, SliceFrom(line, offset))
                    /\ fragments'[i].lines_left = fragments[i].lines_left
        /\ Len(fragments') > Len(fragments) =>
              /\ IsSeparator(line)
              /\ SubSeq(fragments', 1, Len(fragments)) = fragments]_vars

C12_Witness ==
    /\ pc = "done"
    /\ Len(fragments) = 2
    /\ fragments[1].lines_left = <<>>
    /\ fragments[1].start_line_left = -1
    /\ fragments[2].start_line_left = 5
    /\ fragments[2].lines_left = <<"!a">>

Generated == pc = "generated"

\* a page of the given kind presenting the given symbol has been written
PageOf(kind, subject) ==
    \E p \in DOMAIN files : files[p].kind = kind /\ files[p].subject = subject

PagesOfKind(kind) == {p \in DOMAIN files : files[p].kind = kind}

\* the file an href on the page at path names, relative to the output directory
Resolve(path, href) ==
    IF startswith(href, "../")
    THEN IF startswith(path, "kabi/") THEN SliceFrom(href, 3) ELSE "../"
    ELSE IF startswith(path, "kabi/") THEN "kabi/" \o href ELSE href

\* the external symbols affected by the records of the input directory
\* C13: after generate completes, the output holds one page per internal
\* symbol difference read from the input directory, one page per distinct
\* affected external symbol (name, kind) and an index, and every link on
\* any of these pages names a file that generate wrote.
C13_OnePagePerDifference ==
    Generated =>
        /\ \A i \in 1..Len(listing) :
              PageOf("difference", listing[i].symbol_old)
        /\ Cardinality(PagesOfKind("difference")) = Len(listing)
        /\ \A i \in 1..Len(listing) :
              \A a \in 1..Len(listing[i].affected_symbols) :
                  PageOf("kabi", listing[i].affected_symbols[a].symbol)
        /\ \A p \in PagesOfKind("kabi") :
              \E i \in 1..Len(listing) :
                  \E a \in 1..Len(listing[i].affected_symbols) :
                      listing[i].affected_symbols[a].symbol = files[p].subject
        /\ \A p \in PagesOfKind("kabi") : \A q \in PagesOfKind("kabi") :
              files[p].subject = files[q].subject => p = q
        /\ "index.html" \in PagesOfKind("index")
        /\ \A p \in DOMAIN files : \A h \in files[p].links :
              Resolve(p, h) \in DOMAIN files

\* the entries one difference contributes, each with the key it goes under
Contribution(d) ==
    [a \in 1..Len(d.affected_symbols) |->
        [key |-> d.affected_symbols[a].symbol,
         entry |-> [symbol |-> d.symbol_old,
                    callstack_old |-> d.affected_symbols[a].callstack_old,
                    callstack_new |-> d.affected_symbols[a].callstack_new]]]

RECURSIVE Contributions(_)
Contributions(ds) ==
    IF ds = <<>> THEN <<>>
    ELSE Contribution(Head(ds).value) \o Contributions(Tail(ds))

\* the entries of the contributions that go under key, in order
EntriesUnder(key) ==
    LET own == SelectSeq(Contributions(differences), LAMBDA c : c.key = key)
    IN  [k \in 1..Len(own) |-> own[k].entry]

RECURSIVE TotalEntries(_)
TotalEntries(d) ==
    IF d = <<>> THEN 0 ELSE Len(Head(d).value) + TotalEntries(Tail(d))

RECURSIVE TotalAffections(_)
TotalAffections(ds) ==
    IF ds = <<>> THEN 0
    ELSE Len(Head(ds).value.affected_symbols) + TotalAffections(Tail(ds))

CollectedExternalSymbols ==
    pc \in {"kabi", "index", "pygments", "htmlgen", "generated"}

\* C18: once _collect_external_symbols has returned, no two keys are equal
\* in name and kind, the list under each key holds exactly the entries
\* (old internal symbol of the difference, old and new call stack of the
\* affection) of the affections of that external symbol, one per affection
\* and in iteration order, every affection has its key, the number of
\* entries over all keys is the number of affections; and no step of the
\* collection changes the differences.
C18_InversionLossless ==
    /\ [](CollectedExternalSymbols =>
            /\ \A i \in 1..Len(external_symbols) :
                  /\ \A j \in 1..Len(external_symbols) :
                        external_symbols[i].key = external_symbols[j].key
                            => i = j
                  /\ external_symbols[i].value # <<>>
                  /\ external_symbols[i].value =
                        EntriesUnder(external_symbols[i].key)
            /\ \A i \in 1..Len(differences) :
                  \A a \in 1..Len(differences[i].value.affected_symbols) :
                      \E k \in 1..Len(external_symbols) :
                          external_symbols[k].key =
                              differences[i].value.affected_symbols[a].symbol
            /\ TotalEntries(external_symbols) = TotalAffections(differences))
    /\ [][pc = "externals" => differences' = differences]_vars

C18_Witness ==
    /\ Generated
    /\ Len(differences) = 2
    /\ Len(external_symbols) = 2
    /\ external_symbols[1].key.name = external_symbols[2].key.name
    /\ Len(external_symbols[1].value) = 2
    /\ external_symbols[1].value[1].symbol # external_symbols[1].value[2].symbol
    /\ external_symbols[1].value[2].callstack_new = <<>>

\* C14: in every row, a cell that shows a line number shows the start line
\* of its own column plus the cursor of that column at the time of the row.
C14_CellsCarryOwnNumbers ==
    \A i \in 1..Len(out) : \A r \in 1..Len(out[i].rows) :
        LET row == out[i].rows[r]
        IN  /\ row.left.shown =>
                  row.left.num = fragments[i].start_line_left + row.li
            /\ row.right.shown =>
                  row.right.num = fragments[i].start_line_right + row.ri
            /\ row.left.shown \/ row.right.shown

C14_Witness ==
    /\ pc = "done"
    /\ Len(out[1].rows) = 2
    /\ out[1].rows[1].rule = "addition"
    /\ out[1].rows[2].rule = "context"
    /\ out[1].rows[2].left.num = -1
    /\ out[1].rows[2].right.num = 21

\* C15: whenever both candidate lines start with !, the iteration emits one
\* row with a removed left cell labelled left_start_line + li and an added
\* right cell labelled right_start_line + ri, and both cursors advance by
\* exactly one.
C15_PairedFirst ==
    [][(/\ pc = "loop"
        /\ LoopCond
        /\ startswith(line_left, "!")
        /\ startswith(line_right, "!"))
       => /\ out'[frag].rows = Append(out[frag].rows, LastRow')
          /\ LastRow'.tr
          /\ LastRow'.left.klass = "line removed"
          /\ LastRow'.left.num = fragment.start_line_left + index_left
          /\ LastRow'.left.text = SliceFrom(line_left, 1)
          /\ LastRow'.right.klass = "line added"
          /\ LastRow'.right.num = fragment.start_line_right + index_right
          /\ LastRow'.right.text = SliceFrom(line_right, 1)
          /\ index_left' = index_left + 1
          /\ index_right' = index_right + 1]_vars

C15_Witness ==
    /\ pc = "done"
    /\ fragments[1].lines_left = <<"-a", "!a">>
    /\ fragments[1].lines_right = <<"!b", "+b">>
    /\ Len(out[1].rows) = 3
    /\ out[1].rows[2].rule = "paired"

LeftMarked(l) == l # "" /\ CharAt(l, 1) \in {"!", "-"}

RightMarked(l) == l # "" /\ CharAt(l, 1) \in {"!", "+"}

\* C16: when the two candidates do not both start with ! and the left one
\* starts with ! or -, the row is removed/empty, li advances by one and ri
\* stays, whatever the right candidate; otherwise, when the right candidate
\* starts with ! or +, the row is empty/added, ri advances by one and li
\* stays.
C16_SingleSideSteps ==
    [][(/\ pc = "loop"
        /\ LoopCond
        /\ ~(startswith(line_left, "!") /\ startswith(line_right, "!"))
        /\ LeftMarked(line_left) \/ RightMarked(line_right))
       => /\ out'[frag].rows = Append(out[frag].rows, LastRow')
          /\ LastRow'.tr
          /\ IF LeftMarked(line_left)
             THEN /\ LastRow'.left.klass = "line removed"
                  /\ LastRow'.left.text = SliceFrom(line_left, 1)
                  /\ LastRow'.right = EmptyCell
                  /\ index_left' = index_left + 1
                  /\ index_right' = index_right
             ELSE /\ LastRow'.left = EmptyCell
                  /\ LastRow'.right.klass = "line added"
                  /\ LastRow'.right.text = SliceFrom(line_right, 1)
                  /\ index_left' = index_left
                  /\ index_right' = index_right + 1]_vars

C16_Witness ==
    /\ pc = "done"
    /\ fragments[1].lines_left = <<"-a">>
    /\ fragments[1].lines_right = <<"+b">>
    /\ Len(out[1].rows) = 2
    /\ out[1].rows[1].rule = "deletion"
    /\ out[1].rows[1].ri = 0
    /\ out[1].rows[2].rule = "addition"
    /\ out[1].rows[2].li = 1

Classes(row) == <<row.left.klass, row.right.klass>>

FourClasses ==
    { <<"line removed", "line empty">>, <<"line empty", "line added">>,
      <<"line removed", "line added">>, <<"line", "line">> }

\* every marked line of fragment i is shown in a removed or an added cell
MarkedLinesShown(i) ==
    /\ \A k \in 1..Len(fragments[i].lines_left) :
          LeftMarked(fragments[i].lines_left[k]) =>
              \E r \in 1..Len(out[i].rows) :
                  /\ out[i].rows[r].li = k - 1
                  /\ out[i].rows[r].left.klass = "line removed"
                  /\ out[i].rows[r].left.text =
                        SliceFrom(fragments[i].lines_left[k], 1)
    /\ \A k \in 1..Len(fragments[i].lines_right) :
          RightMarked(fragments[i].lines_right[k]) =>
              \E r \in 1..Len(out[i].rows) :
                  /\ out[i].rows[r].ri = k - 1
                  /\ out[i].rows[r].right.klass = "line added"
                  /\ out[i].rows[r].right.text =
                        SliceFrom(fragments[i].lines_right[k], 1)

\* C17 as stated: every row has one of the four classifications, every
\* left line starting with - or ! is in a removed cell, every right line
\* starting with + or ! is in an added cell, and the text of a
\* context/context row starts with none of the markers !, + and -.
C17_ContextShowsNoMarker ==
    \A i \in 1..Len(out) :
        Rendered(i) =>
            /\ MarkedLinesShown(i)
            /\ \A r \in 1..Len(out[i].rows) :
                  LET row == out[i].rows[r]
                  IN  /\ Classes(row) \in FourClasses
                      /\ Classes(row) = <<"line", "line">> =>
                            Unmarked(row.left.text) /\ Unmarked(row.right.text)

\* C17 amended: every row has one of the four classifications, every left
\* line starting with - or ! is in a removed cell, every right line
\* starting with + or ! is in an added cell, and a context/context row
\* shows only lines that carry no marker of their own side: a left line
\* starting with neither ! nor -, a right line starting with neither ! nor +
\* (so a left line starting with + or a right line starting with - is shown
\* as context with its marker).
C17_ContextShowsNoOwnMarker ==
    \A i \in 1..Len(out) :
        Rendered(i) =>
            /\ MarkedLinesShown(i)
            /\ \A r \in 1..Len(out[i].rows) :
                  LET row == out[i].rows[r]
                      l == IF row.li < Len(fragments[i].lines_left)
                           THEN fragments[i].lines_left[row.li + 1] ELSE ""
                      rr == IF row.ri < Len(fragments[i].lines_right)
                            THEN fragments[i].lines_right[row.ri + 1] ELSE ""
                  IN  /\ Classes(row) \in FourClasses
                      /\ Classes(row) = <<"line", "line">> =>
                            /\ ~LeftMarked(l) /\ ~RightMarked(rr)
                            /\ row.left.text \in {l, rr}
                            /\ row.right.text \in {l, rr}

C17_Witness ==
    /\ pc = "done"
    /\ fragments[1].lines_left = <<"!a", "+a">>
    /\ fragments[1].lines_right = <<" b">>
    /\ Len(out[1].rows) = 2
    /\ Classes(out[1].rows[1]) = <<"line removed", "line empty">>
    /\ Classes(out[1].rows[2]) = <<"line", "line">>
    /\ out[1].rows[2].left.text = "+a"

\* the text a cell shows of a line: a removed or added cell drops the marker
ShownText(cell, l) ==
    cell.text = IF cell.klass = "line" THEN l ELSE SliceFrom(l, 1)

\* the rows that show a line of the left list, resp. of the right list
LeftRows(i) ==
    SelectSeq(out[i].rows,
              LAMBDA row : row.rule \in {"paired", "deletion",
                                         "right_exhausted", "context"})

RightRows(i) ==
    SelectSeq(out[i].rows,
              LAMBDA row : row.rule \in {"paired", "addition",
                                         "left_exhausted", "context"})

\* C19: every line of lines_left and every line of lines_right is shown in
\* exactly one row, and the lines of a side appear in the rows in the order
\* of their list.
C19_NoLineLostOrReordered ==
    \A i \in 1..Len(out) :
        Rendered(i) =>
            /\ Len(LeftRows(i)) = Len(fragments[i].lines_left)
            /\ Len(RightRows(i)) = Len(fragments[i].lines_right)
            /\ \A k \in 1..Len(LeftRows(i)) :
                  /\ LeftRows(i)[k].li = k - 1
                  /\ LeftRows(i)[k].left.shown
                  /\ ShownText(LeftRows(i)[k].left, fragments[i].lines_left[k])
            /\ \A k \in 1..Len(RightRows(i)) :
                  /\ RightRows(i)[k].ri = k - 1
                  /\ RightRows(i)[k].right.shown
                  /\ ShownText(RightRows(i)[k].right, fragments[i].lines_right[k])
            /\ \A r \in 1..Len(out[i].rows) :
                  out[i].rows[r].rule \in
                      {"paired", "deletion", "addition", "left_exhausted",
                       "right_exhausted", "context"}

C19_Witness ==
    /\ pc = "done"
    /\ fragments[1].lines_left = <<"-a", " a">>
    /\ fragments[1].lines_right = <<"+b", " b">>
    /\ Len(out[1].rows) = 3

\* C20: every row emitted for a fragment, the rows of the two exhausted-side
\* rules included, is two cells enclosed in a table-row element of its own.
C20_RowsEnclosedInTr ==
    \A i \in 1..Len(out) : \A r \in 1..Len(out[i].rows) : out[i].rows[r].tr

\* C21: a text whose first line is not a fragment separator (the empty
\* text, a blank first line, a *** or --- side header first) raises the
\* error at that line, and Diff() never returns with zero fragments.
C21_NeverZeroFragments ==
    /\ [](Returned => fragments # <<>> /\ IsSeparator(lines[1]))
    /\ []((pc = "parse" /\ pos = 1 /\ ~IsSeparator(lines[1]))
             => ENABLED RaiseNoFragment)
    /\ [][(pc = "parse" /\ pos = 1 /\ ~IsSeparator(lines[1]))
             => /\ pc' = "raised"
                /\ error' = "Invalid diff format"
                /\ fragments' = <<>>]_vars

C21_Witness ==
    /\ pc = "raised"
    /\ input = ""
    /\ lines = <<"">>
    /\ error = "Invalid diff format"

\* a side header is the current line and a fragment is open
AtSideHeader ==
    /\ pc = "parse"
    /\ pos <= Len(lines)
    /\ current_fragment # 0
    /\ IsLeftHeader(line) \/ IsRightHeader(line)

\* the step switches the side to that of the header, overwrites that start
\* line of the current fragment and changes nothing else of any fragment
SideSwitched ==
    /\ pc' = "parse"
    /\ pos' = pos + 1
    /\ state' = IF IsLeftHeader(line) THEN "left_line" ELSE "right_line"
    /\ Len(fragments') = Len(fragments)
    /\ \A i \in 1..Len(fragments) :
          /\ fragments'[i].function_name = fragments[i].function_name
          /\ fragments'[i].lines_left = fragments[i].lines_left
          /\ fragments'[i].lines_right = fragments[i].lines_right
          /\ i # current_fragment => fragments'[i] = fragments[i]
    /\ IF IsLeftHeader(line)
       THEN /\ fragments'[current_fragment].start_line_right =
                  fragments[current_fragment].start_line_right
            /\ fragments'[current_fragment].start_line_left = HeaderNumber(line)
       ELSE /\ fragments'[current_fragment].start_line_left =
                  fragments[current_fragment].start_line_left
            /\ fragments'[current_fragment].start_line_right = HeaderNumber(line)

\* C22 as stated: once a fragment is open, every line whose left-trimmed
\* text starts with *** or --- switches the side and overwrites that
\* side's start line, whatever the side state, appends nothing and keeps
\* the lines collected.
C22_HeaderAlwaysSwitches ==
    [][AtSideHeader => SideSwitched]_vars

\* C22 amended: once a fragment is open, a line whose left-trimmed text
\* starts with *** or --- is never appended to a line list, whatever the
\* side state; if the text between its prefix and suffix up to the first
\* comma is an integer, it switches the side, overwrites that side's start
\* line of the current fragment and keeps the lines collected; otherwise
\* the integer conversion raises and the fragments and the side are left
\* as they were.
C22_HeaderSwitchesOrRaises ==
    [][AtSideHeader =>
          IF IsIntLiteral(HeaderField(line))
          THEN SideSwitched
          ELSE /\ pc' = "raised"
               /\ error' # ""
               /\ fragments' = fragments
               /\ state' = state]_vars

C22_Witness ==
    /\ pc = "done"
    /\ Len(lines) = 5
    /\ IsLeftHeader(lines[2])
    /\ IsContent(lines[3])
    /\ IsLeftHeader(lines[4])
    /\ IsContent(lines[5])
    /\ Len(fragments) = 1
    /\ fragments[1].lines_left = <<"!a", "!a">>
    /\ fragments[1].start_line_left = 5

\* C23: within one fragment, of two rows that both show a line number in
\* the left column the later one shows the greater number, and likewise in
\* the right column; so no number is shown twice in a column.
C23_NumbersStrictlyIncrease ==
    \A i \in 1..Len(out) :
        \A r \in 1..Len(out[i].rows) : \A q \in 1..(r - 1) :
            LET earlier == out[i].rows[q]
                later == out[i].rows[r]
            IN  /\ (earlier.left.shown /\ later.left.shown) =>
                      earlier.left.num < later.left.num
                /\ (earlier.right.shown /\ later.right.shown) =>
                      earlier.right.num < later.right.num

C23_Witness ==
    /\ pc = "done"
    /\ Len(out[1].rows) = 3
    /\ out[1].rows[1].rule = "deletion"
    /\ out[1].rows[2].rule = "context"
    /\ out[1].rows[3].rule = "left_exhausted"
    /\ ~out[1].rows[1].right.shown
    /\ out[1].rows[3].left.num = out[1].rows[1].left.num + 2
    /\ out[1].rows[3].right.num = out[1].rows[2].right.num + 1

\* the parser raises on the diff of difference number i of the dict
Raising(i) == DiffError(strip(differences[i].value.diff)) # ""

\* C24: with graphical diffs, when Diff() raises for a difference the error
\* leaves generate() and nothing more is written: the pages of the
\* differences before it are the only files, its own page, the later
\* pages, the kabi pages, index.html and the stylesheets are never written;
\* generate() gets past the difference pages only if no diff raises; without
\* graphical diffs generate() never fails and always runs on to its end.
C24_ParseErrorStopsGenerate ==
    /\ [](pc = "raised" =>
            /\ graphical_diff
            /\ error # ""
            /\ gi < Len(differences)
            /\ Raising(gi + 1)
            /\ \A i \in 1..gi : ~Raising(i)
            /\ DOMAIN files =
                  {DifferenceHref(differences[i].value.symbol_old) : i \in 1..gi}
            /\ \A i \in 1..gi :
                  files[DifferenceHref(differences[i].value.symbol_old)] =
                      DifferencePage(differences[i].value)
            /\ external_symbols = <<>>
            /\ ~ENABLED NextD)
    /\ []((graphical_diff /\ pc \in {"externals", "kabi", "index", "pygments",
                                     "htmlgen", "generated"})
             => \A i \in 1..Len(differences) : ~Raising(i))
    /\ [](~graphical_diff =>
            /\ pc # "raised"
            /\ error = ""
            /\ pc # "generated" => ENABLED NextD)
    /\ [][(pc = "pages" /\ gi < Len(differences) /\ graphical_diff
              /\ Raising(gi + 1))
             => /\ pc' = "raised"
                /\ error' = DiffError(strip(difference.diff))
                /\ files' = files
                /\ gi' = gi]_vars

C24_Witness ==
    /\ pc = "raised"
    /\ error = "Invalid diff format"
    /\ Len(differences) = 2
    /\ gi = 1
    /\ Len(differences[1].value.affected_symbols) = 1
    /\ DOMAIN files = {"f.html"}

====
